---- MODULE Spec2Model ----
(***************************************************************************)
(* VotingPlugin-Presets: the index builder (tools/build-index.mjs) and the *)
(* preset generator (tools/generate-preset-from-issue.mjs) as a state      *)
(* machine over the repository's files.                                    *)
(*                                                                         *)
(* Strings are sequences of characters (one-character TLA+ strings; the    *)
(* two non-ASCII characters used are the tokens "U+00E9", e with acute,    *)
(* and "U+0301", the combining acute accent).  JSON values are tagged      *)
(* records, so that typeof and Array.isArray are decided by the tag.       *)
(***************************************************************************)
EXTENDS Integers, Sequences, FiniteSets, TLC

VARIABLES
  files,      \* the working tree: path -> file content, or Absent
  indexJson,  \* index.json at the repository root, or Absent
  last,       \* outcome of the last tool run (exit status, error, trace of effects)
  probe,      \* input of the pure-function specifications
  result      \* output of the pure-function specifications

vars == <<files, indexJson, last, probe, result>>

(***************************************************************************)
(* String literals of the two scripts.                                     *)
(***************************************************************************)
sMetaSuffix == <<".", "m", "e", "t", "a", ".", "j", "s", "o", "n">>
sBundleSuffix == <<".", "b", "u", "n", "d", "l", "e", ".", "j", "s", "o", "n">>
sPresets == <<"p", "r", "e", "s", "e", "t", "s">>
sBundles == <<"b", "u", "n", "d", "l", "e", "s">>
sVotesitesDir == <<"p", "r", "e", "s", "e", "t", "s", "/", "v", "o", "t", "e", "s", "i", "t", "e", "s", "/">>
sRewardsDir == <<"p", "r", "e", "s", "e", "t", "s", "/", "r", "e", "w", "a", "r", "d", "s", "/">>
sMilestonesDir == <<"p", "r", "e", "s", "e", "t", "s", "/", "m", "i", "l", "e", "s", "t", "o", "n", "e", "s", "/">>
sBundlesDir == <<"b", "u", "n", "d", "l", "e", "s", "/">>
sWww == <<"w", "w", "w", ".">>
catVotesites == <<"v", "o", "t", "e", "s", "i", "t", "e", "s">>
catRewards == <<"r", "e", "w", "a", "r", "d", "s">>
catMilestones == <<"m", "i", "l", "e", "s", "t", "o", "n", "e", "s">>
catBundles == <<"b", "u", "n", "d", "l", "e", "s">>
catOther == <<"o", "t", "h", "e", "r">>
sHttp == <<"h", "t", "t", "p", ":", "/", "/">>
sHttps == <<"h", "t", "t", "p", "s", ":", "/", "/">>
sVotesitePrefix == <<"v", "o", "t", "e", "s", "i", "t", "e", ":">>
sRewardPrefix == <<"r", "e", "w", "a", "r", "d", ":">>
sAddVoteUrlLater == <<"A", "D", "D", "_", "V", "O", "T", "E", "_", "U", "R", "L", "_", "L", "A", "T", "E", "R">>
sGenericSuffix == <<" ", "(", "g", "e", "n", "e", "r", "i", "c", ")">>
sGeneric == <<"G", "e", "n", "e", "r", "i", "c", " ">>
sVoteSitePreset == <<" ", "V", "o", "t", "e", "S", "i", "t", "e", " ", "p", "r", "e", "s", "e", "t", ".">>
sTrue == <<"t", "r", "u", "e">>
sFalse == <<"f", "a", "l", "s", "e">>
sCommands == <<"c", "o", "m", "m", "a", "n", "d", "s">>
sMessages == <<"m", "e", "s", "s", "a", "g", "e", "s">>
sCommandsHdr == <<"C", "o", "m", "m", "a", "n", "d", "s">>
sMessagesHdr == <<"M", "e", "s", "s", "a", "g", "e", "s">>
sCommandsBlock == <<"c", "o", "m", "m", "a", "n", "d", "s", "B", "l", "o", "c", "k">>
sMessagesBlock == <<"m", "e", "s", "s", "a", "g", "e", "s", "B", "l", "o", "c", "k">>
sReward == <<"r", "e", "w", "a", "r", "d">>
sInline == <<"i", "n", "l", "i", "n", "e">>
sVotesite == <<"v", "o", "t", "e", "s", "i", "t", "e">>
sNoResponse == <<"n", "o", " ", "r", "e", "s", "p", "o", "n", "s", "e">>
sRewardBlockSuffix == <<".", "r", "e", "w", "a", "r", "d", "b", "l", "o", "c", "k", ".", "y", "m", "l">>
sInlineReward == <<"I", "n", "l", "i", "n", "e", " ", "R", "e", "w", "a", "r", "d", " ", "(">>
sMergedInto == <<")", " ", "m", "e", "r", "g", "e", "d", " ", "i", "n", "t", "o", " ", "V", "o", "t", "e", "S", "i", "t", "e", "s", ".", "<", "s", "i", "t", "e", "K", "e", "y", ">", ".", "R", "e", "w", "a", "r", "d", "s", ".">>
sOnePerLine == <<" ", "(", "o", "n", "e", " ", "p", "e", "r", " ", "l", "i", "n", "e", ")">>
sGenericFragment == <<"p", "r", "e", "s", "e", "t", "s", "/", "v", "o", "t", "e", "s", "i", "t", "e", "s", "/", "g", "e", "n", "e", "r", "i", "c", ".", "v", "o", "t", "e", "s", "i", "t", "e", "s", ".", "y", "m", "l">>
sYmlOpen == <<":", "\n", "<">>
sYmlClose == <<">", "\n">>

(***************************************************************************)
(* JavaScript strings.                                                     *)
(***************************************************************************)
\* UTF-16 code unit order of the characters used (ascending): the order of
\* Array.prototype.sort() without a comparator.
CodeUnitOrder ==
  << "\n", " ", "#", "(", ")", ",", "-", ".", "/",
     "0", "1", "2", "3", "4", "5", "6", "7", "8", "9", ":", "<", ">",
     "A", "B", "C", "D", "E", "F", "G", "H", "I", "J", "K", "L", "M",
     "N", "O", "P", "Q", "R", "S", "T", "U", "V", "W", "X", "Y", "Z",
     "\\", "_",
     "a", "b", "c", "d", "e", "f", "g", "h", "i", "j", "k", "l", "m",
     "n", "o", "p", "q", "r", "s", "t", "u", "v", "w", "x", "y", "z",
     "U+00E9", "U+0301" >>

UpperCase ==
  << "A", "B", "C", "D", "E", "F", "G", "H", "I", "J", "K", "L", "M",
     "N", "O", "P", "Q", "R", "S", "T", "U", "V", "W", "X", "Y", "Z" >>

LowerCase ==
  << "a", "b", "c", "d", "e", "f", "g", "h", "i", "j", "k", "l", "m",
     "n", "o", "p", "q", "r", "s", "t", "u", "v", "w", "x", "y", "z" >>

\* The position of each character of a sequence without repetitions.
Positions(seq) ==
  [c \in {seq[i] : i \in 1..Len(seq)} |-> CHOOSE i \in 1..Len(seq) : seq[i] = c]

CodeUnits == Positions(CodeUnitOrder)

Code(c) == CodeUnits[c]

UpperCasePositions == Positions(UpperCase)

IsUpper(c) == c \in DOMAIN UpperCasePositions

LowerChar(c) == IF IsUpper(c) THEN LowerCase[UpperCasePositions[c]] ELSE c

\* White space as String.prototype.trim and the regular expression \s see it.
IsWs(c) == c \in {" ", "\n"}

RECURSIVE trimStart(_)
trimStart(s) == IF s # <<>> /\ IsWs(Head(s)) THEN trimStart(Tail(s)) ELSE s

RECURSIVE trimEnd(_)
trimEnd(s) ==
  IF s # <<>> /\ IsWs(s[Len(s)]) THEN trimEnd(SubSeq(s, 1, Len(s) - 1)) ELSE s

trim(s) == trimEnd(trimStart(s))

toLowerCase(s) == [i \in 1..Len(s) |-> LowerChar(s[i])]

\* s has sub at offset k (counted from 0).
hasAt(s, sub, k) ==
  k + Len(sub) <= Len(s) /\ \A i \in 1..Len(sub) : s[k + i] = sub[i]

startsWith(s, pre) == hasAt(s, pre, 0)

endsWith(s, suf) == Len(s) >= Len(suf) /\ hasAt(s, suf, Len(s) - Len(suf))

includes(s, sub) == \E k \in 0..(Len(s) - Len(sub)) : hasAt(s, sub, k)

substring(s, n) == SubSeq(s, n + 1, Len(s))

\* replaceAll of one character by another.
replaceAll(s, from, to) == [i \in 1..Len(s) |-> IF s[i] = from THEN to ELSE s[i]]

RECURSIVE IntSeqCompare(_, _)
IntSeqCompare(x, y) ==
  IF x = <<>> /\ y = <<>> THEN 0
  ELSE IF x = <<>> THEN -1
  ELSE IF y = <<>> THEN 1
  ELSE IF Head(x) < Head(y) THEN -1
  ELSE IF Head(x) > Head(y) THEN 1
  ELSE IntSeqCompare(Tail(x), Tail(y))

\* The comparison of < on strings and of sort() without a comparator.
CodeUnitCompare(a, b) ==
  IntSeqCompare([i \in 1..Len(a) |-> Code(a[i])], [i \in 1..Len(b) |-> Code(b[i])])

\* a.filter((d, i, a) => a.indexOf(d) === i)
firstOccurrences(a) ==
  LET keep == {i \in 1..Len(a) : \A j \in 1..(i - 1) : a[j] # a[i]}
      RECURSIVE pick(_)
      pick(i) == IF i > Len(a) THEN <<>>
                 ELSE IF i \in keep THEN <<a[i]>> \o pick(i + 1)
                 ELSE pick(i + 1)
  IN pick(1)

\* Array.prototype.sort() without a comparator, on strings.
RECURSIVE insertByCodeUnit(_, _)
insertByCodeUnit(sorted, x) ==
  IF sorted = <<>> THEN <<x>>
  ELSE IF CodeUnitCompare(Head(sorted), x) > 0 THEN <<x>> \o sorted
  ELSE <<Head(sorted)>> \o insertByCodeUnit(Tail(sorted), x)

RECURSIVE sortStrings(_)
sortStrings(a) ==
  IF a = <<>> THEN <<>>
  ELSE insertByCodeUnit(sortStrings(SubSeq(a, 1, Len(a) - 1)), a[Len(a)])

(***************************************************************************)
(* String.prototype.localeCompare with no locale argument: the collation   *)
(* of the runtime (ICU root collation, tertiary strength).  Canonically    *)
(* equivalent strings compare equal (ECMA-262 requires it), a base letter  *)
(* orders before the same letter with an accent, and a lower-case letter   *)
(* before the same letter in upper case.                                   *)
(***************************************************************************)
RECURSIVE decompose(_)
decompose(s) ==
  IF s = <<>> THEN <<>>
  ELSE IF Head(s) = "U+00E9" THEN <<"e", "U+0301">> \o decompose(Tail(s))
  ELSE <<Head(s)>> \o decompose(Tail(s))

IsMark(c) == c = "U+0301"

\* Primary order of the root collation: white space, punctuation, symbols,
\* digits, letters (both cases of a letter share the primary weight).
CollationOrder ==
  << "\n", " ", "_", "-", ",", ":", ".", "(", ")", "/", "\\", "#", "<", ">",
     "0", "1", "2", "3", "4", "5", "6", "7", "8", "9",
     "a", "b", "c", "d", "e", "f", "g", "h", "i", "j", "k", "l", "m",
     "n", "o", "p", "q", "r", "s", "t", "u", "v", "w", "x", "y", "z" >>

notMark(c) == ~IsMark(c)

PrimaryWeights == Positions(CollationOrder)

primaryKey(s) ==
  LET b == SelectSeq(decompose(s), notMark)
  IN [i \in 1..Len(b) |-> PrimaryWeights[LowerChar(b[i])]]

secondaryKey(s) ==
  LET d == decompose(s)
  IN [i \in 1..Len(d) |-> IF IsMark(d[i]) THEN 1 ELSE 0]

tertiaryKey(s) ==
  LET b == SelectSeq(decompose(s), notMark)
  IN [i \in 1..Len(b) |-> IF IsUpper(b[i]) THEN 1 ELSE 0]

localeCompare(a, b) ==
  LET p == IntSeqCompare(primaryKey(a), primaryKey(b))
      s == IntSeqCompare(secondaryKey(a), secondaryKey(b))
      t == IntSeqCompare(tertiaryKey(a), tertiaryKey(b))
  IN IF p # 0 THEN p ELSE IF s # 0 THEN s ELSE t

(***************************************************************************)
(* JSON values.                                                            *)
(***************************************************************************)
Undefined == [t |-> "undefined"]
Null == [t |-> "null"]
Num == [t |-> "number"]
Str(s) == [t |-> "string", s |-> s]
Bool(b) == [t |-> "boolean", b |-> b]
Arr(a) == [t |-> "array", a |-> a]

isString(v) == v.t = "string"

Absent == [kind |-> "absent"]
Json(doc) == [kind |-> "json", json |-> doc]
Text(s) == [kind |-> "text", text |-> s]

Ok(v) == [ok |-> TRUE, val |-> v]
Throw(e) == [ok |-> FALSE, err |-> e]

(***************************************************************************)
(* tools/build-index.mjs                                                   *)
(***************************************************************************)
isNonBlankString(v) == isString(v) /\ Len(trim(v.s)) > 0

stripWww(d) == IF startsWith(d, sWww) THEN substring(d, 4) ELSE d

normalizeDomains(domains) ==
  IF domains.t # "array" THEN <<>>
  ELSE LET kept == SelectSeq(domains.a, isNonBlankString)
           lowered == [i \in 1..Len(kept) |-> toLowerCase(trim(kept[i].s))]
           stripped == [i \in 1..Len(lowered) |-> stripWww(lowered[i])]
       IN sortStrings(firstOccurrences(stripped))

normalizeKeywords(keywords) ==
  IF keywords.t # "array" THEN <<>>
  ELSE LET kept == SelectSeq(keywords.a, isNonBlankString)
           lowered == [i \in 1..Len(kept) |-> toLowerCase(trim(kept[i].s))]
       IN sortStrings(firstOccurrences(lowered))

\* inferCategory without its "bundles/" case, to show C7_Category tells the
\* two apart.
inferCategoryPresetsOnly(metaPath) ==
  LET p == replaceAll(metaPath, "\\", "/")
  IN IF includes(p, sVotesitesDir) THEN catVotesites
     ELSE IF includes(p, sRewardsDir) THEN catRewards
     ELSE IF includes(p, sMilestonesDir) THEN catMilestones
     ELSE catOther

inferCategory(metaPath) ==
  LET p == replaceAll(metaPath, "\\", "/")
  IN IF includes(p, sVotesitesDir) THEN catVotesites
     ELSE IF includes(p, sRewardsDir) THEN catRewards
     ELSE IF includes(p, sMilestonesDir) THEN catMilestones
     ELSE IF includes(p, sBundlesDir) THEN catBundles
     ELSE catOther

\* An error of the index builder: the message's fixed text, and the path or
\* the id the message embeds (empty when it embeds none).
Error(kind, path, id) == [kind |-> kind, path |-> path, id |-> id]

toIndexEntry(meta, relMetaPath) ==
  LET id == meta.id
      name == meta.display.name
  IN IF ~isString(id) \/ trim(id.s) = <<>>
       THEN Throw(Error("Missing/invalid meta.id in", relMetaPath, <<>>))
     ELSE IF ~isString(name) \/ trim(name.s) = <<>>
       THEN Throw(Error("Missing/invalid display.name in", relMetaPath, <<>>))
     ELSE Ok([id |-> id.s,
              category |-> inferCategory(relMetaPath),
              name |-> name.s,
              description |-> IF isString(meta.display.description)
                                THEN meta.display.description.s ELSE <<>>,
              keywords |-> normalizeKeywords(meta.match.keywords),
              domains |-> normalizeDomains(meta.match.domains),
              metaPath |-> replaceAll(relMetaPath, "\\", "/"),
              updatedAt |-> IF isString(meta.updatedAt) /\ trim(meta.updatedAt.s) # <<>>
                              THEN meta.updatedAt ELSE Null,
              verified |-> (meta.verified = Bool(TRUE))])

\* The bundle branch of main's loop.
bundleEntry(meta, rel) ==
  LET id == meta.id
      name == meta.display.name
  IN IF ~isString(id) \/ ~isString(name)
       THEN Throw(Error("Bundle missing id/display.name:", rel, <<>>))
     ELSE Ok([id |-> id.s,
              category |-> catBundles,
              name |-> name.s,
              description |-> IF isString(meta.display.description)
                                THEN meta.display.description.s ELSE <<>>,
              keywords |-> normalizeKeywords(meta.keywords),
              domains |-> <<>>,
              metaPath |-> replaceAll(rel, "\\", "/"),
              updatedAt |-> IF isString(meta.updatedAt) THEN meta.updatedAt ELSE Null,
              verified |-> (meta.verified = Bool(TRUE))])

\* JSON.parse of a file's content: a file that is not JSON raises a SyntaxError,
\* whose message names neither a path nor an id.
readJson(content) ==
  IF content.kind = "json" THEN Ok(content.json)
  ELSE Throw(Error("SyntaxError", <<>>, <<>>))

\* path.relative(repoRoot, absMeta): the path below the root, with the
\* platform's separator (sep is "/" or "\\").
relative(absMeta, sep) == replaceAll(absMeta, "/", sep)

\* One iteration of main's loop, up to the duplicate check.
projectFile(content, absMeta, sep) ==
  LET rel == relative(absMeta, sep)
      meta == readJson(content)
  IN IF ~meta.ok THEN meta
     ELSE IF endsWith(absMeta, sBundleSuffix) THEN bundleEntry(meta.val, rel)
     ELSE toIndexEntry(meta.val, rel)

\* The loop without the seenIds test, to show C1_IdUniqueness depends on it.
RECURSIVE indexLoopUnchecked(_, _, _, _, _)
indexLoopUnchecked(fs, sep, metaFiles, entries, seenIds) ==
  IF metaFiles = <<>> THEN Ok(entries)
  ELSE LET e == projectFile(fs[Head(metaFiles)], Head(metaFiles), sep)
       IN IF ~e.ok THEN e
          ELSE indexLoopUnchecked(fs, sep, Tail(metaFiles),
                                  Append(entries, e.val), seenIds \cup {e.val.id})

RECURSIVE indexLoop(_, _, _, _, _)
indexLoop(fs, sep, metaFiles, entries, seenIds) ==
  IF metaFiles = <<>> THEN Ok(entries)
  ELSE LET e == projectFile(fs[Head(metaFiles)], Head(metaFiles), sep)
       IN IF ~e.ok THEN e
          ELSE IF e.val.id \in seenIds
            THEN Throw(Error("Duplicate id:", <<>>, e.val.id))
          ELSE indexLoop(fs, sep, Tail(metaFiles),
                         Append(entries, e.val), seenIds \cup {e.val.id})

\* The comparator of sortEntries: category, then id.
entryCompare(a, b) ==
  LET c == localeCompare(a.category, b.category)
  IN IF c # 0 THEN c ELSE localeCompare(a.id, b.id)

\* Array.prototype.sort with a comparator is stable: an entry goes before the
\* first one that compares greater.
RECURSIVE insertEntry(_, _)
insertEntry(sorted, x) ==
  IF sorted = <<>> THEN <<x>>
  ELSE IF entryCompare(Head(sorted), x) > 0 THEN <<x>> \o sorted
  ELSE <<Head(sorted)>> \o insertEntry(Tail(sorted), x)

RECURSIVE sortEntries(_)
sortEntries(entries) ==
  IF entries = <<>> THEN <<>>
  ELSE insertEntry(sortEntries(SubSeq(entries, 1, Len(entries) - 1)),
                   entries[Len(entries)])

(***************************************************************************)
(* The working tree.  A path is relative to the repository root, with "/". *)
(***************************************************************************)

\* The files of the checkouts the specifications run on: presets, bundles and
\* the files the generator writes.
Path ==
  [V |-> <<"p", "r", "e", "s", "e", "t", "s", "/", "v", "o", "t", "e", "s", "i", "t", "e", "s", "/", "v", ".", "m", "e", "t", "a", ".", "j", "s", "o", "n">>,
   W |-> <<"p", "r", "e", "s", "e", "t", "s", "/", "v", "o", "t", "e", "s", "i", "t", "e", "s", "/", "w", ".", "m", "e", "t", "a", ".", "j", "s", "o", "n">>,
   O |-> <<"p", "r", "e", "s", "e", "t", "s", "/", "x", ".", "m", "e", "t", "a", ".", "j", "s", "o", "n">>,
   B |-> <<"b", "u", "n", "d", "l", "e", "s", "/", "b", ".", "b", "u", "n", "d", "l", "e", ".", "j", "s", "o", "n">>,
   PB |-> <<"p", "r", "e", "s", "e", "t", "s", "/", "b", "u", "n", "d", "l", "e", "s", "/", "x", ".", "m", "e", "t", "a", ".", "j", "s", "o", "n">>,
   M |-> <<"p", "r", "e", "s", "e", "t", "s", "/", "m", "i", "l", "e", "s", "t", "o", "n", "e", "s", "/", "m", ".", "m", "e", "t", "a", ".", "j", "s", "o", "n">>,
   R |-> <<"p", "r", "e", "s", "e", "t", "s", "/", "r", "e", "w", "a", "r", "d", "s", "/", "r", ".", "m", "e", "t", "a", ".", "j", "s", "o", "n">>,
   BV |-> <<"b", "u", "n", "d", "l", "e", "s", "/", "p", "r", "e", "s", "e", "t", "s", "/", "v", "o", "t", "e", "s", "i", "t", "e", "s", "/", "v", ".", "b", "u", "n", "d", "l", "e", ".", "j", "s", "o", "n">>,
   Nested |-> <<"p", "r", "e", "s", "e", "t", "s", "/", "r", "e", "w", "a", "r", "d", "s", "/", "p", "r", "e", "s", "e", "t", "s", "/", "v", "o", "t", "e", "s", "i", "t", "e", "s", "/", "n", ".", "m", "e", "t", "a", ".", "j", "s", "o", "n">>,
   Near |-> <<"p", "r", "e", "s", "e", "t", "s", "/", "v", "o", "t", "e", "s", "i", "t", "e", "s", ".", "m", "e", "t", "a", ".", "j", "s", "o", "n">>,
   GenV |-> <<"p", "r", "e", "s", "e", "t", "s", "/", "v", "o", "t", "e", "s", "i", "t", "e", "s", "/", "a", "_", "b", ".", "m", "e", "t", "a", ".", "j", "s", "o", "n">>,
   GenR |-> <<"p", "r", "e", "s", "e", "t", "s", "/", "r", "e", "w", "a", "r", "d", "s", "/", "r", "e", "w", "a", "r", "d", "_", "a", "_", "b", ".", "m", "e", "t", "a", ".", "j", "s", "o", "n">>,
   GenY |-> <<"p", "r", "e", "s", "e", "t", "s", "/", "r", "e", "w", "a", "r", "d", "s", "/", "r", "e", "w", "a", "r", "d", "_", "a", "_", "b", ".", "r", "e", "w", "a", "r", "d", "b", "l", "o", "c", "k", ".", "y", "m", "l">>]

\* Ids of documents: two that differ in case, two canonically equivalent
\* spellings of one accented letter, and the ids of submissions.
Id ==
  [A |-> <<"a">>,
   B |-> <<"B">>,
   EAcute |-> <<"U+00E9">>,
   EAcuteDecomposed |-> <<"e", "U+0301">>,
   VoteA |-> <<"v", "o", "t", "e", "s", "i", "t", "e", ":", "a">>,
   VoteB |-> <<"v", "o", "t", "e", "s", "i", "t", "e", ":", "b">>,
   RewardSlash |-> <<"r", "e", "w", "a", "r", "d", ":", "a", "/", "b">>,
   RewardUnderscore |-> <<"r", "e", "w", "a", "r", "d", ":", "a", "_", "b">>]

NoError == Error("", <<>>, <<>>)

NoRun == [tool |-> "none", exit |-> 0, err |-> NoError, trace |-> <<>>]

present(fs) == {p \in DOMAIN fs : fs[p] # Absent}

\* exists(path.join(repoRoot, dir)): a directory of a checkout holds a file.
exists(fs, dir) == \E p \in present(fs) : startsWith(p, dir \o <<"/">>)

\* The set of files findFiles(dir, n => n.endsWith(suffix)) returns.
findFiles(fs, dir, suffix) ==
  {p \in present(fs) : startsWith(p, dir \o <<"/">>) /\ endsWith(p, suffix)}

dirsOf(S) ==
  UNION {{SubSeq(p, 1, i) : i \in {k \in 1..Len(p) : p[k] = "/"}} : p \in S}

\* The orders in which findFiles can return the files S: readdirSync lists a
\* directory in an order of the file system's choosing, and a subdirectory is
\* traversed where it is listed, so the files below one directory are adjacent.
traversals(S) ==
  LET n == Cardinality(S)
      dirs == dirsOf(S)
      below == [d \in dirs |-> {p \in S : startsWith(p, d)}]
  IN {f \in [1..n -> S] :
        /\ \A i, j \in 1..n : i # j => f[i] # f[j]
        /\ \A d \in dirs : \A i, j, k \in 1..n :
             (i < j /\ j < k /\ f[i] \in below[d] /\ f[k] \in below[d])
               => f[j] \in below[d]}

\* A build that empties index.json when it fails, to show C3_AllOrNothing
\* depends on the write being last.
buildIndexTruncating(fs, old, presetFiles, bundleFiles, sep, now) ==
  IF ~exists(fs, sPresets) /\ ~exists(fs, sBundles)
    THEN [index |-> old, exit |-> 1,
          err |-> Error("No presets/ or bundles/ folder found.", <<>>, <<>>)]
  ELSE LET r == indexLoop(fs, sep, presetFiles \o bundleFiles, <<>>, {})
       IN IF ~r.ok
            THEN [index |-> Json([schemaVersion |-> 1, generatedAt |-> now,
                                  entries |-> <<>>]),
                  exit |-> 1, err |-> r.err]
          ELSE [index |-> Json([schemaVersion |-> 1,
                                generatedAt |-> now,
                                entries |-> sortEntries(r.val)]),
                exit |-> 0, err |-> NoError]

\* main of build-index.mjs on the tree fs, with index.json holding old:
\* the new index.json, the exit status and the error reported.
buildIndex(fs, old, presetFiles, bundleFiles, sep, now) ==
  IF ~exists(fs, sPresets) /\ ~exists(fs, sBundles)
    THEN [index |-> old, exit |-> 1,
          err |-> Error("No presets/ or bundles/ folder found.", <<>>, <<>>)]
  ELSE LET r == indexLoop(fs, sep, presetFiles \o bundleFiles, <<>>, {})
       IN IF ~r.ok THEN [index |-> old, exit |-> 1, err |-> r.err]
          ELSE [index |-> Json([schemaVersion |-> 1,
                                generatedAt |-> now,
                                entries |-> sortEntries(r.val)]),
                exit |-> 0, err |-> NoError]

(***************************************************************************)
(* Specification Spec: the index builder run, any number of times, on a    *)
(* checkout.  The checkout is any tree of at most MaxFiles files that      *)
(* contributors have committed; index.json is missing or is the output of  *)
(* a run on an earlier tree.                                               *)
(***************************************************************************)
MaxFiles == 2

Times == {1, 2}

Separators == {"/", "\\"}

metaDoc(id, name) ==
  [id |-> id,
   display |-> [name |-> name, description |-> Undefined],
   match |-> [domains |-> Undefined, keywords |-> Undefined],
   keywords |-> Undefined, updatedAt |-> Undefined, verified |-> Undefined,
   placeholders |-> Undefined, fragments |-> Undefined]

RepoPaths == {Path.V, Path.W, Path.O, Path.B, Path.BV}

RepoContents ==
  {Json(metaDoc(Str(i), Str(<<"n">>))) : i \in {Id.A, Id.B, Id.EAcute, Id.EAcuteDecomposed}}
    \cup {Json(metaDoc(Undefined, Str(<<"n">>))),
          Json(metaDoc(Str(Id.A), Str(<<" ">>))),
          Text(<<"{">>)}

Trees ==
  {f \in [RepoPaths -> RepoContents \cup {Absent}] :
     Cardinality(present(f)) <= MaxFiles}

\* index.json as a run at time 1 left it on the tree holding preset a alone.
StaleIndex ==
  buildIndex([p \in RepoPaths |->
                IF p = Path.V THEN Json(metaDoc(Str(Id.A), Str(<<"n">>))) ELSE Absent],
             Absent, <<Path.V>>, <<>>, "/", 1).index

Init ==
  /\ files \in Trees
  /\ indexJson \in {Absent, StaleIndex}
  /\ last = NoRun
  /\ probe = <<>>
  /\ result = <<>>

BuildIndex(presetFiles, bundleFiles, sep, now) ==
  \E run \in {buildIndex(files, indexJson, presetFiles, bundleFiles, sep, now)} :
    /\ indexJson' = run.index
    /\ last' = [tool |-> "build-index", exit |-> run.exit, err |-> run.err,
                trace |-> <<>>]
    /\ UNCHANGED <<files, probe, result>>

\* The traversals of every set of files of a checkout.
RepoTraversals == [S \in SUBSET RepoPaths |-> traversals(S)]

RunBuildIndex ==
  \E presetFiles \in RepoTraversals[findFiles(files, sPresets, sMetaSuffix)] :
    \E bundleFiles \in RepoTraversals[findFiles(files, sBundles, sBundleSuffix)] :
      \E sep \in Separators : \E now \in Times :
        BuildIndex(presetFiles, bundleFiles, sep, now)

Next == RunBuildIndex

Spec == Init /\ [][Next]_vars

(***************************************************************************)
(* Specification SpecEntry: one iteration of the index builder's loop on   *)
(* one file, for the claims about a single entry.  The file's path, its    *)
(* document and the platform's separator are drawn in Init.                *)
(***************************************************************************)
MaxList == 2

EntryPaths ==
  {Path.V, Path.O, Path.B, Path.PB, Path.M, Path.R, Path.BV, Path.Nested, Path.Near}

\* Values found in match.domains, match.keywords and keywords.
RawItems ==
  {Str(<<"a">>), Str(<<" ", "A", " ">>), Str(<<"w", "w", "w", ".", "a">>),
   Str(<<"W", "W", "W", ".", "w", "w", "w", ".", "a">>),
   Str(<<"w", "w", "w", ".", " ", "a">>), Str(<<"w", "w", "w", ".">>),
   Str(<<"b">>), Str(<<" ">>), Num}

RawLists == UNION {[1..n -> RawItems] : n \in 0..MaxList}

\* A document whose three lists are all the list l (or all missing).
listDoc(l) ==
  [id |-> Str(Id.A),
   display |-> [name |-> Str(<<"n">>), description |-> Str(<<"d">>)],
   match |-> [domains |-> l, keywords |-> l],
   keywords |-> l, updatedAt |-> Str(<<"2", "0">>), verified |-> Bool(TRUE),
   placeholders |-> Undefined, fragments |-> Undefined]

EntryDocs ==
  {listDoc(Arr(l)) : l \in RawLists}
    \cup {listDoc(Undefined),
          metaDoc(Str(<<" ">>), Str(<<"n">>)),
          metaDoc(Num, Str(<<"n">>)),
          metaDoc(Str(Id.A), Undefined)}

NoResult == [ok |-> FALSE, err |-> NoError]

InitEntry ==
  /\ probe \in [path : EntryPaths, content : {Json(d) : d \in EntryDocs},
                sep : Separators]
  /\ result = NoResult
  /\ files = <<>>
  /\ indexJson = Absent
  /\ last = NoRun

Project ==
  /\ result = NoResult
  /\ result' = projectFile(probe.content, probe.path, probe.sep)
  /\ UNCHANGED <<files, indexJson, last, probe>>

NextEntry == Project

SpecEntry == InitEntry /\ [][NextEntry]_vars

(***************************************************************************)
(* tools/generate-preset-from-issue.mjs                                    *)
(***************************************************************************)
\* s.replace(/^https?:\/\//, "")
stripProtocol(s) ==
  IF startsWith(s, sHttps) THEN substring(s, Len(sHttps))
  ELSE IF startsWith(s, sHttp) THEN substring(s, Len(sHttp))
  ELSE s

\* s.replace(/\/.*$/, ""): from the first "/" with no line break after it.
stripPath(s) ==
  LET cut == {i \in 1..Len(s) :
                s[i] = "/" /\ \A j \in (i + 1)..Len(s) : s[j] # "\n"}
  IN IF cut = {} THEN s
     ELSE SubSeq(s, 1, (CHOOSE i \in cut : \A j \in cut : i <= j) - 1)

normDomain(s) == stripPath(stripWww(stripProtocol(toLowerCase(trim(s)))))

RECURSIVE join(_, _)
join(parts, glue) ==
  IF parts = <<>> THEN <<>>
  ELSE IF Len(parts) = 1 THEN parts[1]
  ELSE parts[1] \o glue \o join(Tail(parts), glue)

RECURSIVE split(_, _)
split(s, ch) ==
  LET at == {i \in 1..Len(s) : s[i] = ch}
  IN IF at = {} THEN <<s>>
     ELSE LET i == CHOOSE k \in at : \A j \in at : k <= j
          IN <<SubSeq(s, 1, i - 1)>> \o split(SubSeq(s, i + 1, Len(s)), ch)

\* The issue body is the sequence of its lines; a line that matches
\* /^###\s+(.*)\s*$/ is a header [hdr |-> TRUE, key |-> the trimmed field name],
\* any other line is [hdr |-> FALSE, text |-> its characters].
put(out, k, v) == [x \in DOMAIN out \cup {k} |-> IF x = k THEN v ELSE out[x]]

flush(st) ==
  [out |-> IF st.curKey.set
             THEN put(st.out, st.curKey.key, trim(join(st.buf, <<"\n">>)))
             ELSE st.out,
   curKey |-> [set |-> FALSE, key |-> ""],
   buf |-> <<>>]

RECURSIVE parseLines(_, _)
parseLines(lines, st) ==
  IF lines = <<>> THEN flush(st)
  ELSE LET ln == Head(lines)
       IN IF ln.hdr
            THEN parseLines(Tail(lines),
                            [flush(st) EXCEPT !.curKey = [set |-> TRUE, key |-> ln.key]])
          ELSE IF st.curKey.set
            THEN parseLines(Tail(lines), [st EXCEPT !.buf = Append(st.buf, ln.text)])
          ELSE parseLines(Tail(lines), st)

parseIssueForm(body) ==
  LET out == parseLines(body, [out |-> <<>>,
                               curKey |-> [set |-> FALSE, key |-> ""],
                               buf |-> <<>>]).out
  IN [k \in DOMAIN out |->
        IF toLowerCase(trim(out[k])) = sNoResponse THEN <<>> ELSE out[k]]

\* (fields[k] || "").trim()
field(fields, k) == IF k \in DOMAIN fields THEN trim(fields[k]) ELSE <<>>

isBoolStr(s) ==
  LET v == toLowerCase(trim(s))
  IN v = sTrue \/ v = sFalse

IsDigit(c) == c \in {"0", "1", "2", "3", "4", "5", "6", "7", "8", "9"}

\* isIntStr without the digits test, to show C8_Fallback depends on it.
isIntStrNonEmpty(s) == trim(s) # <<>>

isIntStr(s) ==
  LET v == trim(s)
  IN v # <<>> /\ \A i \in 1..Len(v) : IsDigit(v[i])

\* writeFile(p, content): mkdirp, then fs.writeFileSync.
writeFile(fs, p, content) ==
  [q \in DOMAIN fs \cup {p} |-> IF q = p THEN content ELSE fs[q]]

Placeholder(label, default) == [type |-> "string", label |-> label, default |-> default]

\* The extra domains pushed after the primary one.
RECURSIVE pushDomains(_, _)
pushDomains(domains, raw) ==
  IF raw = <<>> THEN domains
  ELSE LET nd == normDomain(Head(raw))
       IN pushDomains(IF nd # <<>> /\ \A i \in 1..Len(domains) : domains[i] # nd
                        THEN Append(domains, nd) ELSE domains,
                      Tail(raw))

\* The votesite branch of main: an error, or the file to write.
voteSite(fields) ==
  LET domain == normDomain(field(fields, "Domain (no protocol)"))
      extraDomainsRaw == IF "Extra domains (comma separated)" \in DOMAIN fields
                           THEN fields["Extra domains (comma separated)"] ELSE <<>>
      presetId == field(fields, "Preset ID")
      siteKey == field(fields, "VoteSite key (siteKey)")
      displayName == field(fields, "Display name (displayName)")
      serviceSite == field(fields, "ServiceSite (required)")
      voteUrl == field(fields, "Default VoteURL placeholder")
      voteUrlDefault == IF voteUrl # <<>> THEN voteUrl ELSE sAddVoteUrlLater
      voteDelay == field(fields, "VoteDelay (optional)")
      waitUntil == field(fields, "WaitUntilVoteDelay (optional)")
      daily == field(fields, "VoteDelayDaily (optional)")
      dailyHour == field(fields, "VoteDelayDailyHour (optional)")
      domains == IF extraDomainsRaw # <<>>
                   THEN pushDomains(<<domain>>, split(extraDomainsRaw, ","))
                   ELSE <<domain>>
      slug == replaceAll(domain, ".", "_")
  IN IF domain = <<>> THEN Throw(Error("Domain is required", <<>>, <<>>))
     ELSE IF ~startsWith(presetId, sVotesitePrefix)
       THEN Throw(Error("Preset ID must start with votesite:", <<>>, <<>>))
     ELSE IF siteKey = <<>> THEN Throw(Error("siteKey is required", <<>>, <<>>))
     ELSE IF displayName = <<>> THEN Throw(Error("displayName is required", <<>>, <<>>))
     ELSE IF serviceSite = <<>> THEN Throw(Error("serviceSite is required", <<>>, <<>>))
     ELSE Ok(<<
       [path |-> sVotesitesDir \o slug \o sMetaSuffix,
        content |-> Json(
          [schemaVersion |-> 1,
           id |-> Str(presetId),
           display |-> [name |-> Str(displayName \o sGenericSuffix),
                        description |-> Str(sGeneric \o displayName \o sVoteSitePreset)],
           match |-> [domains |-> Arr([i \in 1..Len(domains) |-> Str(domains[i])]),
                      keywords |-> Arr(<<Str(toLowerCase(siteKey)),
                                         Str(toLowerCase(displayName))>>)],
           placeholders |->
             [siteKey |-> Placeholder("VoteSite key", siteKey),
              displayName |-> Placeholder("VoteSite display name", displayName),
              serviceSite |-> Placeholder("ServiceSite", serviceSite),
              voteURL |-> Placeholder("Vote URL", voteUrlDefault),
              voteDelay |-> Placeholder("VoteDelay (blank = omit)", voteDelay),
              waitUntilVoteDelay |->
                Placeholder("WaitUntilVoteDelay (true/false, blank = omit)",
                            IF isBoolStr(waitUntil) THEN toLowerCase(waitUntil) ELSE <<>>),
              voteDelayDaily |->
                Placeholder("VoteDelayDaily (true/false, blank = omit)",
                            IF isBoolStr(daily) THEN toLowerCase(daily) ELSE <<>>),
              voteDelayDailyHour |->
                Placeholder("VoteDelayDailyHour (0-23, blank = omit)",
                            IF isIntStr(dailyHour) THEN dailyHour ELSE <<>>)],
           fragments |-> <<[path |-> sGenericFragment, mergeInto |-> "VoteSites"]>>,
           verified |-> Bool(FALSE),
           keywords |-> Undefined,
           updatedAt |-> Undefined])]>>)

\* The reward branch of main: an error, or the two files to write, in order.
reward(fields) ==
  LET presetId == field(fields, "Preset ID")
      displayName == field(fields, "Display name")
      rewardType == toLowerCase(field(fields, "Reward type"))
      lines == field(fields, "Default lines (one per line)")
      slug == replaceAll(replaceAll(presetId, ":", "_"), "/", "_")
      isCommands == rewardType = sCommands
      placeholderKey == IF isCommands THEN "commands" ELSE "messages"
      blockKey == IF isCommands THEN sCommandsBlock ELSE sMessagesBlock
      headerKey == IF isCommands THEN sCommandsHdr ELSE sMessagesHdr
  IN IF ~startsWith(presetId, sRewardPrefix)
       THEN Throw(Error("Preset ID must start with reward:", <<>>, <<>>))
     ELSE IF displayName = <<>> THEN Throw(Error("display name is required", <<>>, <<>>))
     ELSE IF rewardType # sCommands /\ rewardType # sMessages
       THEN Throw(Error("Reward type must be commands or messages", <<>>, <<>>))
     ELSE IF lines = <<>> THEN Throw(Error("Default lines required", <<>>, <<>>))
     ELSE Ok(<<
       [path |-> sRewardsDir \o slug \o sMetaSuffix,
        content |-> Json(
          [schemaVersion |-> 1,
           id |-> Str(presetId),
           display |-> [name |-> Str(displayName),
                        description |-> Str(sInlineReward \o rewardType \o sMergedInto)],
           match |-> [domains |-> Undefined,
                      keywords |-> Arr(<<Str(sReward), Str(sInline), Str(rewardType)>>)],
           placeholders |->
             [k \in {placeholderKey} |-> Placeholder(headerKey \o sOnePerLine, lines)],
           fragments |-> <<[path |-> sRewardsDir \o slug \o sRewardBlockSuffix,
                            mergeInto |-> "VoteSites.<siteKey>.Rewards"]>>,
           verified |-> Bool(FALSE),
           keywords |-> Undefined,
           updatedAt |-> Undefined])],
       [path |-> sRewardsDir \o slug \o sRewardBlockSuffix,
        content |-> Text(headerKey \o sYmlOpen \o blockKey \o sYmlClose)]>>)

\* process.env.PRESET_KIND || (title mentions "reward" ? "reward" : "votesite")
kindOf(sub) ==
  IF sub.presetKind # <<>> THEN sub.presetKind
  ELSE IF includes(toLowerCase(sub.title), sReward) THEN sReward
  ELSE sVotesite

\* main without the ISSUE_NUMBER test, to show C4_NoPartialWrites depends on
\* it.
planUnnumbered(sub) ==
  LET fields == parseIssueForm(sub.body)
  IN IF kindOf(sub) = sVotesite THEN voteSite(fields) ELSE reward(fields)

\* main up to the index rebuild: the error thrown, or the files to write.
plan(sub) ==
  IF sub.issueNumber = <<>> THEN Throw(Error("Missing ISSUE_NUMBER env var", <<>>, <<>>))
  ELSE LET fields == parseIssueForm(sub.body)
       IN IF kindOf(sub) = sVotesite THEN voteSite(fields) ELSE reward(fields)

RECURSIVE writeAll(_, _)
writeAll(fs, writes) ==
  IF writes = <<>> THEN fs
  ELSE writeAll(writeFile(fs, Head(writes).path, Head(writes).content), Tail(writes))

\* A generator that rebuilds the index before it writes, to show
\* C10_WriteThenIndex depends on the order.
generateIndexFirst(fs, old, p, presetFiles, bundleFiles, sep, now) ==
  IF ~p.ok
    THEN [files |-> fs, index |-> old, exit |-> 1, err |-> p.err, trace |-> <<>>]
  ELSE LET run == buildIndex(fs, old,
                             SelectSeq(presetFiles, LAMBDA q : q \in present(fs)),
                             SelectSeq(bundleFiles, LAMBDA q : q \in present(fs)),
                             sep, now)
       IN [files |-> writeAll(fs, p.val), index |-> run.index, exit |-> run.exit,
           err |-> run.err,
           trace |-> <<[op |-> "exec", path |-> <<>>]>>
                       \o [i \in 1..Len(p.val) |-> [op |-> "write", path |-> p.val[i].path]]]

\* main of the generator on the tree fs, from the outcome p of its parsing and
\* validation: the tree and index.json it leaves, its exit status, the error,
\* and the trace of its effects in order.
generate(fs, old, p, presetFiles, bundleFiles, sep, now) ==
  IF ~p.ok
    THEN [files |-> fs, index |-> old, exit |-> 1, err |-> p.err, trace |-> <<>>]
  ELSE LET written == writeAll(fs, p.val)
           run == buildIndex(written, old, presetFiles, bundleFiles, sep, now)
       IN [files |-> written, index |-> run.index, exit |-> run.exit,
           err |-> run.err,
           trace |-> [i \in 1..Len(p.val) |-> [op |-> "write", path |-> p.val[i].path]]
                       \o <<[op |-> "exec", path |-> <<>>]>>]

(***************************************************************************)
(* Specification SpecGen: the generator and the index builder run on a     *)
(* checkout, one submission after another.                                 *)
(***************************************************************************)

\* Answers given in issue forms, and issue titles.
Answer ==
  [Plain |-> <<"a", ".", "b">>,
   Url |-> <<"h", "t", "t", "p", "s", ":", "/", "/", "w", "w", "w", ".", "A", ".", "b", "/", "x">>,
   Extras |-> <<"w", "w", "w", ".", "A", ".", "b", ",", " ", "c", ".", "d">>,
   TitleReward |-> <<"N", "e", "w", " ", "R", "e", "w", "a", "r", "d">>,
   TitleOther |-> <<"x">>,
   Commands |-> <<"C", "o", "m", "m", "a", "n", "d", "s">>,
   Music |-> <<"m", "u", "s", "i", "c">>,
   Lines |-> <<"x", "\n", "y">>,
   NoResponse |-> <<"N", "o", " ", "r", "e", "s", "p", "o", "n", "s", "e">>]

\* An issue-form body: for each field a header line, a blank line, the lines of
\* the value and a blank line.
RECURSIVE formBody(_)
formBody(pairs) ==
  IF pairs = <<>> THEN <<>>
  ELSE LET value == split(Head(pairs)[2], "\n")
       IN <<[hdr |-> TRUE, key |-> Head(pairs)[1]], [hdr |-> FALSE, text |-> <<>>]>>
            \o [i \in 1..Len(value) |-> [hdr |-> FALSE, text |-> value[i]]]
            \o <<[hdr |-> FALSE, text |-> <<>>]>>
            \o formBody(Tail(pairs))

voteBody(domain, id, key, name, service, wait) ==
  formBody(<< <<"Domain (no protocol)", domain>>,
              <<"Extra domains (comma separated)", Answer.Extras>>,
              <<"Preset ID", id>>,
              <<"VoteSite key (siteKey)", key>>,
              <<"Display name (displayName)", name>>,
              <<"ServiceSite (required)", service>>,
              <<"Default VoteURL placeholder", Answer.NoResponse>>,
              <<"WaitUntilVoteDelay (optional)", wait>> >>)

rewardBody(id, name, type, lines) ==
  formBody(<< <<"Preset ID", id>>,
              <<"Display name", name>>,
              <<"Reward type", type>>,
              <<"Default lines (one per line)", lines>> >>)

Submission(number, kind, title, body) ==
  [issueNumber |-> number, presetKind |-> kind, title |-> title, body |-> body]

VoteBodies ==
  {voteBody(d, Id.VoteA, <<"K">>, <<"N">>, <<"S">>, <<"T", "r", "u", "e">>) :
     d \in {Answer.Plain, Answer.Url, Answer.NoResponse}}
    \cup {voteBody(Answer.Plain, i, <<"K">>, <<"N">>, <<"S">>, <<"x">>) :
            i \in {Id.VoteB, Id.RewardSlash}}
    \cup {voteBody(Answer.Plain, Id.VoteA, r[1], r[2], r[3], <<>>) :
            r \in {<<<<>>, <<"N">>, <<"S">>>>, <<<<"K">>, <<" ">>, <<"S">>>>,
                   <<<<"K">>, <<"N">>, <<>>>>}}

RewardBodies ==
  {rewardBody(i, <<"N">>, Answer.Commands, Answer.Lines) :
     i \in {Id.RewardSlash, Id.RewardUnderscore, Id.VoteA}}
    \cup {rewardBody(Id.RewardSlash, r[1], r[2], r[3]) :
            r \in {<<<<"N">>, sMessages, <<"x">>>>, <<<<>>, sCommands, <<"x">>>>,
                   <<<<"N">>, Answer.Music, <<"x">>>>, <<<<"N">>, sCommands, <<>>>>}}

baseVoteBody == voteBody(Answer.Plain, Id.VoteA, <<"K">>, <<"N">>, <<"S">>, <<>>)

baseRewardBody == rewardBody(Id.RewardSlash, <<"N">>, sCommands, <<"x">>)

Submissions ==
  {Submission(<<"7">>, sVotesite, Answer.TitleOther, b) : b \in VoteBodies}
    \cup {Submission(<<"7">>, sReward, Answer.TitleOther, b) : b \in RewardBodies}
    \cup {Submission(<<"7">>, <<>>, t, b) :
            t \in {Answer.TitleReward, Answer.TitleOther}, b \in {baseVoteBody, baseRewardBody}}
    \cup {Submission(<<>>, sVotesite, Answer.TitleOther, baseVoteBody)}

\* What a checkout may already hold at each path.
GenPaths == {Path.GenV, Path.GenR, Path.GenY, Path.V}

earlier(p) ==
  IF p = Path.GenV THEN Json(metaDoc(Str(Id.B), Str(<<"n">>)))
  ELSE IF p = Path.GenR THEN Json(metaDoc(Str(Id.A), Str(<<"n">>)))
  ELSE IF p = Path.GenY THEN Text(<<"x">>)
  ELSE Json(metaDoc(Str(Id.VoteA), Str(<<"n">>)))

GenTrees ==
  {f \in [GenPaths -> {Absent} \cup {earlier(p) : p \in GenPaths}] :
     /\ \A p \in GenPaths : f[p] \in {Absent, earlier(p)}
     /\ Cardinality(present(f)) <= MaxFiles}

InitGen ==
  /\ files \in GenTrees
  /\ indexJson \in {Absent, StaleIndex}
  /\ last = NoRun
  /\ probe = <<>>
  /\ result = <<>>

\* The outcome of parsing and validation, for each submission.
Plans == [sub \in Submissions |-> plan(sub)]

Generate(sub, presetFiles, bundleFiles, sep, now) ==
  \E run \in {generate(files, indexJson, Plans[sub], presetFiles, bundleFiles, sep, now)} :
    /\ files' = run.files
    /\ indexJson' = run.index
    /\ last' = [tool |-> "generate", exit |-> run.exit, err |-> run.err,
                trace |-> run.trace]
    /\ UNCHANGED <<probe, result>>

\* The tree the index rebuild of a generator run traverses.
treeAfter(fs, p) == IF p.ok THEN writeAll(fs, p.val) ELSE fs

\* The generator runs on the forge's Linux runners, at a time after the one
\* the checkout's index.json was built at.
GenTimes == {2}

\* The traversals of every set of files of a checkout.
GenTraversals == [S \in SUBSET GenPaths |-> traversals(S)]

RunGenerate ==
  \E sub \in Submissions :
    LET after == treeAfter(files, Plans[sub])
    IN \E presetFiles \in GenTraversals[findFiles(after, sPresets, sMetaSuffix)] :
         \E bundleFiles \in GenTraversals[findFiles(after, sBundles, sBundleSuffix)] :
           \E now \in GenTimes :
             Generate(sub, presetFiles, bundleFiles, "/", now)

NextGen == RunGenerate

SpecGen == InitGen /\ [][NextGen]_vars

(***************************************************************************)
(* Specification SpecForm: the generator's parsing and validation of one   *)
(* VoteSite submission, for the claims about the document it builds.  The  *)
(* four optional fields are drawn in Init: left out of the form, or given  *)
(* with one of OptionalValues.                                             *)
(***************************************************************************)
OptionalValues ==
  {<<"T", "r", "u", "e">>, sFalse, <<"1", "2">>, <<" ", "7">>, <<"x">>, Answer.NoResponse}

OptionalInputs ==
  {[given |-> FALSE, v |-> <<>>]} \cup {[given |-> TRUE, v |-> x] : x \in OptionalValues}

OptionalFields ==
  << <<"voteDelay", "VoteDelay (optional)">>,
     <<"waitUntilVoteDelay", "WaitUntilVoteDelay (optional)">>,
     <<"voteDelayDaily", "VoteDelayDaily (optional)">>,
     <<"voteDelayDailyHour", "VoteDelayDailyHour (optional)">> >>

Slots == {OptionalFields[i][1] : i \in 1..Len(OptionalFields)}

RECURSIVE optionalPairs(_, _)
optionalPairs(opt, i) ==
  IF i > Len(OptionalFields) THEN <<>>
  ELSE (IF opt[OptionalFields[i][1]].given
          THEN << <<OptionalFields[i][2], opt[OptionalFields[i][1]].v>> >>
          ELSE <<>>)
         \o optionalPairs(opt, i + 1)

formOf(opt) ==
  formBody(<< <<"Domain (no protocol)", Answer.Plain>>,
              <<"Preset ID", Id.VoteA>>,
              <<"VoteSite key (siteKey)", <<"K">>>>,
              <<"Display name (displayName)", <<"N">>>>,
              <<"ServiceSite (required)", <<"S">>>> >>
             \o optionalPairs(opt, 1))

InitForm ==
  /\ probe \in [Slots -> OptionalInputs]
  /\ result = NoResult
  /\ files = <<>>
  /\ indexJson = Absent
  /\ last = NoRun

Fill ==
  /\ result = NoResult
  /\ result' = voteSite(parseIssueForm(formOf(probe)))
  /\ UNCHANGED <<files, indexJson, last, probe>>

NextForm == Fill

SpecForm == InitForm /\ [][NextForm]_vars

(***************************************************************************)
(* Properties of the index builder, checked under Spec.                    *)
(***************************************************************************)
\* The files a run discovers, and what the claims say of their documents.
Discovered(fs) ==
  findFiles(fs, sPresets, sMetaSuffix) \cup findFiles(fs, sBundles, sBundleSuffix)

IsBundleFile(p) == endsWith(p, sBundleSuffix)

HasId(fs, p) == fs[p].kind = "json" /\ fs[p].json.id.t = "string"

HasDuplicateId(fs) ==
  \E p, q \in Discovered(fs) :
    p # q /\ HasId(fs, p) /\ HasId(fs, q) /\ fs[p].json.id.s = fs[q].json.id.s

Blank(v) == v.t # "string" \/ trim(v.s) = <<>>

Malformed(fs, p) ==
  /\ p \in Discovered(fs)
  /\ fs[p].kind = "json"
  /\ IF IsBundleFile(p)
       THEN fs[p].json.id.t # "string" \/ fs[p].json.display.name.t # "string"
       ELSE Blank(fs[p].json.id) \/ Blank(fs[p].json.display.name)

Entries(ix) == IF ix = Absent THEN <<>> ELSE ix.json.entries

UniqueIds(ix) ==
  \A i, j \in 1..Len(Entries(ix)) : i # j => Entries(ix)[i].id # Entries(ix)[j].id

BuildStep == last'.tool = "build-index"

\* C1: every index a run emits has pairwise different ids, and a run on a tree
\* that holds two documents with the same id exits with an error and leaves
\* index.json as it was.
C1_IdUniqueness ==
  [][BuildStep =>
       /\ UniqueIds(indexJson')
       /\ HasDuplicateId(files) => (last'.exit = 1 /\ indexJson' = indexJson)]_vars

\* A run met a bundle and a preset meta with the same id, reported the
\* duplicate and left the earlier index.json in place.
C1_Witness ==
  /\ last.tool = "build-index"
  /\ last.err.kind = "Duplicate id:"
  /\ \E p, q \in Discovered(files) :
       /\ IsBundleFile(p) /\ ~IsBundleFile(q)
       /\ HasId(files, p) /\ HasId(files, q)
       /\ files[p].json.id.s = files[q].json.id.s
  /\ indexJson = StaleIndex

\* The path a message embeds, read with either separator.
Names(err, p) == replaceAll(err.path, "\\", "/") = p

\* C3 as stated: a run on a tree with a malformed document exits with an error
\* that names that document's path, and leaves index.json as it was.
C3_Original ==
  [][BuildStep =>
       \A p \in RepoPaths :
         Malformed(files, p) =>
           /\ last'.exit = 1
           /\ Names(last'.err, p)
           /\ indexJson' = indexJson]_vars

\* p is the only document of the tree a run can fail on.
SoleOffender(fs, p) ==
  /\ Malformed(fs, p)
  /\ \A q \in Discovered(fs) \ {p} : fs[q].kind = "json" /\ ~Malformed(fs, q)
  /\ ~HasDuplicateId(fs)

\* C3, amended: a run on a tree with a malformed document exits with an error
\* and leaves index.json as it was; the error names the malformed document's
\* path when no other document of the tree is malformed, unparseable or a
\* duplicate.
C3_AllOrNothing ==
  [][BuildStep =>
       \A p \in RepoPaths :
         Malformed(files, p) =>
           /\ last'.exit = 1
           /\ indexJson' = indexJson
           /\ \A i \in 1..Len(Entries(indexJson')) :
                indexJson' # indexJson => Entries(indexJson')[i].metaPath # p
           /\ SoleOffender(files, p) => Names(last'.err, p)]_vars

\* A run failed on a bundle without an id, named it, and left the earlier
\* index.json in place.
C3_Witness ==
  /\ last.tool = "build-index"
  /\ last.exit = 1
  /\ \E p \in RepoPaths :
       /\ IsBundleFile(p) /\ SoleOffender(files, p)
       /\ files[p].json.id.t = "undefined"
       /\ last.err.kind = "Bundle missing id/display.name:"
       /\ Names(last.err, p)
  /\ indexJson = StaleIndex

\* C5 as stated, with < and <= the order of the strings' code units: in an
\* emitted index an entry precedes another only if its category is smaller, or
\* the categories are equal and its id is not greater.
C5_Sorted ==
  \A i, j \in 1..Len(Entries(indexJson)) :
    i < j =>
      LET A == Entries(indexJson)[i]
          B == Entries(indexJson)[j]
      IN \/ CodeUnitCompare(A.category, B.category) < 0
         \/ /\ A.category = B.category
            /\ CodeUnitCompare(A.id, B.id) <= 0

\* C9 as stated: two successive successful runs leave the same entries.
C9_Deterministic ==
  [][(/\ last.tool = "build-index" /\ last.exit = 0
      /\ last'.tool = "build-index" /\ last'.exit = 0
      /\ files' = files)
       => Entries(indexJson') = Entries(indexJson)]_vars

(***************************************************************************)
(* Properties of one entry, checked under SpecEntry.                       *)
(***************************************************************************)
Ascending(l) ==
  \A i, j \in 1..Len(l) : i < j => CodeUnitCompare(l[i], l[j]) < 0

\* C6 as stated: every domain of an entry is its own trimmed, lower-cased,
\* "www."-stripped form, every keyword its own trimmed, lower-cased form, and
\* both lists are strictly ascending (sorted, without duplicates).
C6_Normalized ==
  result.ok =>
    /\ \A i \in 1..Len(result.val.domains) :
         LET d == result.val.domains[i]
         IN stripWww(toLowerCase(trim(d))) = d
    /\ \A i \in 1..Len(result.val.keywords) :
         LET k == result.val.keywords[i]
         IN toLowerCase(trim(k)) = k
    /\ Ascending(result.val.domains)
    /\ Ascending(result.val.keywords)

\* The category the claim gives a preset meta file, from its path with "/".
ClaimedCategory(p) ==
  IF includes(p, sVotesitesDir) THEN catVotesites
  ELSE IF includes(p, sRewardsDir) THEN catRewards
  ELSE IF includes(p, sMilestonesDir) THEN catMilestones
  ELSE catOther

\* C7 as stated: a bundle file's entry has category bundles; a preset meta
\* file's entry has votesites, rewards, milestones or other, by its path.
C7_Original ==
  result.ok =>
    result.val.category =
      IF IsBundleFile(probe.path) THEN catBundles ELSE ClaimedCategory(probe.path)

\* C7, amended: as stated, but a preset meta file whose path contains none of
\* the three preset directories and contains "bundles/" has category bundles.
C7_Category ==
  result.ok =>
    result.val.category =
      IF IsBundleFile(probe.path) THEN catBundles
      ELSE IF ClaimedCategory(probe.path) # catOther THEN ClaimedCategory(probe.path)
      ELSE IF includes(probe.path, sBundlesDir) THEN catBundles
      ELSE catOther

\* A preset meta file stored under presets/bundles/ got category bundles.
C7_Witness ==
  /\ result.ok
  /\ probe.path = Path.PB
  /\ result.val.category = catBundles

(***************************************************************************)
(* Properties of the generated VoteSite document, checked under SpecForm.  *)
(***************************************************************************)
\* The value a submission supplies for a slot: the field's text, trimmed;
\* nothing when the field is left out or answered "No response".
Supplied(in) ==
  IF ~in.given \/ toLowerCase(trim(in.v)) = sNoResponse THEN <<>> ELSE trim(in.v)

BoolString(v) == toLowerCase(v) = sTrue \/ toLowerCase(v) = sFalse

IntString(v) == v # <<>> /\ \A i \in 1..Len(v) : IsDigit(v[i])

\* The recognized form of each slot (voteDelay read as leniently as the claim
\* allows: either form).
Recognized(slot, v) ==
  IF slot = "voteDelayDailyHour" THEN IntString(v)
  ELSE IF slot = "voteDelay" THEN IntString(v) \/ BoolString(v)
  ELSE BoolString(v)

Canonical(v) == IF BoolString(v) THEN toLowerCase(v) ELSE v

Default(slot) == result.val[1].content.json.placeholders[slot].default

FallsBack(slot) ==
  Default(slot) =
    IF Recognized(slot, Supplied(probe[slot])) THEN Canonical(Supplied(probe[slot]))
    ELSE <<>>

\* C8 as stated: the default of each of the four optional placeholders is the
\* supplied value when it has the slot's recognized form, and empty otherwise.
C8_Original == result.ok => \A slot \in Slots : FallsBack(slot)

\* C8, amended: that holds of waitUntilVoteDelay, voteDelayDaily and
\* voteDelayDailyHour; the default of voteDelay is the supplied value, whatever
\* its form.
C8_Fallback ==
  result.ok =>
    /\ \A slot \in Slots \ {"voteDelay"} : FallsBack(slot)
    /\ Default("voteDelay") = Supplied(probe["voteDelay"])

\* A document built from a voteDelay that is neither a number nor a boolean,
\* kept as its default, beside a boolean in capitals and a non-number.
C8_Witness ==
  /\ result.ok
  /\ probe["voteDelay"].v = <<"x">> /\ Default("voteDelay") = <<"x">>
  /\ probe["waitUntilVoteDelay"].v = <<"T", "r", "u", "e">>
  /\ Default("waitUntilVoteDelay") = sTrue
  /\ probe["voteDelayDailyHour"].v = <<"x">> /\ Default("voteDelayDailyHour") = <<>>

(***************************************************************************)
(* Properties of the generator, checked under SpecGen.                     *)
(***************************************************************************)
GenerateStep == last'.tool = "generate"

\* C2 as stated: a generator run leaves the content of every file that was
\* there before the run as it was.
C2_CreateOnly ==
  [][GenerateStep =>
       \A p \in present(files) : files'[p] = files[p]]_vars

\* The validation rules, read off a submission's trimmed fields.
InvalidVoteSite(f) ==
  \/ normDomain(field(f, "Domain (no protocol)")) = <<>>
  \/ ~startsWith(field(f, "Preset ID"), sVotesitePrefix)
  \/ field(f, "VoteSite key (siteKey)") = <<>>
  \/ field(f, "Display name (displayName)") = <<>>
  \/ field(f, "ServiceSite (required)") = <<>>

InvalidReward(f) ==
  \/ ~startsWith(field(f, "Preset ID"), sRewardPrefix)
  \/ field(f, "Display name") = <<>>
  \/ toLowerCase(field(f, "Reward type")) \notin {sCommands, sMessages}
  \/ field(f, "Default lines (one per line)") = <<>>

Invalid(sub) ==
  \/ sub.issueNumber = <<>>
  \/ IF kindOf(sub) = sVotesite
       THEN InvalidVoteSite(parseIssueForm(sub.body))
       ELSE InvalidReward(parseIssueForm(sub.body))

Invalids == {sub \in Submissions : Invalid(sub)}

\* What the generator's runs on the submission sub do from the current state,
\* one for each order the index rebuild can traverse the tree in.
Runs(sub) ==
  LET after == treeAfter(files, Plans[sub])
  IN {generate(files, indexJson, Plans[sub], presetFiles, bundleFiles, "/", 2) :
        presetFiles \in GenTraversals[findFiles(after, sPresets, sMetaSuffix)],
        bundleFiles \in GenTraversals[findFiles(after, sBundles, sBundleSuffix)]}

\* C4: a generator run on a submission that breaks a validation rule (or has
\* no issue number) exits with an error, writes no file and does not run the
\* index builder: the tree and index.json are as before, and the run's trace
\* of writes and index builds is empty.
C4_NoPartialWrites ==
  \A sub \in Invalids :
    \A run \in Runs(sub) :
      /\ run.exit = 1
      /\ run.err # NoError
      /\ run.trace = <<>>
      /\ run.files = files
      /\ run.index = indexJson

\* A run on a reward submission was rejected for its reward type, on a tree
\* that holds files and an index.
C4_Witness ==
  /\ last.tool = "generate"
  /\ last.exit = 1
  /\ last.err.kind = "Reward type must be commands or messages"
  /\ last.trace = <<>>
  /\ present(files) # {}
  /\ indexJson = StaleIndex

\* The tree has a document the index builder fails on.
BuildFails(fs) ==
  \/ HasDuplicateId(fs)
  \/ \E p \in Discovered(fs) : fs[p].kind # "json" \/ Malformed(fs, p)

Indexed(ix, p) == \E i \in 1..Len(Entries(ix)) : Entries(ix)[i].metaPath = p

\* C10: a generator run that passes validation writes its files and then
\* runs the index builder once, on the tree that holds them.  When the
\* build fails the run fails, the written files stay and index.json is as
\* before; when it succeeds the emitted index lists the written documents.
C10_WriteThenIndex ==
  [][(GenerateStep /\ last'.trace # <<>>) =>
       LET t == last'.trace
           n == Len(t)
       IN /\ n > 1
          /\ t[n].op = "exec"
          /\ \A i \in 1..(n - 1) : t[i].op = "write" /\ t[i].path \in present(files')
          /\ BuildFails(files') => (last'.exit # 0 /\ indexJson' = indexJson)
          /\ ~BuildFails(files') =>
               /\ last'.exit = 0
               /\ \A i \in 1..(n - 1) :
                    endsWith(t[i].path, sMetaSuffix) => Indexed(indexJson', t[i].path)]_vars

\* A run wrote a votesite document whose id an older document has: the index
\* build reported the duplicate, the run failed, the new file is on disk and
\* the earlier index.json is in place.
C10_Witness ==
  /\ last.tool = "generate"
  /\ last.exit = 1
  /\ last.err.kind = "Duplicate id:"
  /\ last.trace = <<[op |-> "write", path |-> Path.GenV], [op |-> "exec", path |-> <<>>]>>
  /\ files[Path.GenV].json.id.s = Id.VoteA
  /\ files[Path.V].json.id.s = Id.VoteA
  /\ indexJson = StaleIndex

====
